---- MODULE Spec2Model ----
(***************************************************************************)
(* Model of scraper.py: WebScraper / BuyGoodsScraper and main().           *)
(*                                                                         *)
(* Python strings are sequences of one-character strings, so that strip,   *)
(* lower, startswith and substring tests are computed, not assumed.  A     *)
(* parsed document (BeautifulSoup) is the sequence of its nodes in         *)
(* document order, each with its depth; index 0 is the BeautifulSoup       *)
(* object itself.  Python values that reach a result are tagged with       *)
(* their type, so that None, "", [] and {} are four different values.      *)
(***************************************************************************)
EXTENDS Integers, Sequences, FiniteSets, TLC

\* Largest number of top-level markup fragments in a response body.
MaxFragments == 2

(***************************************************************************)
(* String literals of the program and of the documents served to it.       *)
(***************************************************************************)
s_testimonial == <<"t", "e", "s", "t", "i", "m", "o", "n", "i", "a", "l">>

s_contact == <<"c", "o", "n", "t", "a", "c", "t">>

s_get_in_touch == <<"g", "e", "t", " ", "i", "n", " ", "t", "o", "u", "c", "h">>

s_copyright == <<"©">>

s_facebook == <<"f", "a", "c", "e", "b", "o", "o", "k">>

s_twitter == <<"t", "w", "i", "t", "t", "e", "r">>

s_linkedin == <<"l", "i", "n", "k", "e", "d", "i", "n">>

s_instagram == <<"i", "n", "s", "t", "a", "g", "r", "a", "m">>

url_buygoods == <<"h", "t", "t", "p", "s", ":", "/", "/", "b", "u", "y", "g", "o", "o", "d", "s", ".", "c", "o", "m">>

url_example == <<"h", "t", "t", "p", ":", "/", "/", "e", "x", "a", "m", "p", "l", "e", ".", "o", "r", "g">>

txt_title == <<" ", "B", "u", "y", " ", "G", "o", "o", "d", "s", " ">>

txt_fast == <<" ", "F", "a", "s", "t", " ">>

txt_pay == <<"P", "a", "y">>

txt_footer == <<" ", "©", " ", "2", "0", "2", "4">>

txt_blank == <<" ", "\n">>

txt_great == <<"G", "r", "e", "a", "t">>

txt_ann == <<"A", "n", "n">>

txt_bob == <<" ", "B", "o", "b">>

txt_nice == <<"N", "i", "c", "e">>

txt_contact_us == <<"C", "o", "n", "t", "a", "c", "t", " ", "u", "s">>

txt_get_in_touch == <<"G", "e", "t", " ", "I", "n", " ", "T", "o", "u", "c", "h">>

txt_shop == <<"S", "h", "o", "p">>

cls_testimonial_card == <<"T", "e", "s", "t", "i", "m", "o", "n", "i", "a", "l", "-", "c", "a", "r", "d">>

cls_testimonials == <<"t", "e", "s", "t", "i", "m", "o", "n", "i", "a", "l", "s">>

cls_box == <<"b", "o", "x">>

href_facebook == <<"h", "t", "t", "p", "s", ":", "/", "/", "f", "a", "c", "e", "b", "o", "o", "k", ".", "c", "o", "m", "/", "x">>

href_example == <<"h", "t", "t", "p", "s", ":", "/", "/", "e", "x", "a", "m", "p", "l", "e", ".", "c", "o", "m", "/", "y">>

href_twitter == <<"h", "t", "t", "p", "s", ":", "/", "/", "t", "w", "i", "t", "t", "e", "r", ".", "c", "o", "m", "/", "z">>

href_linkedin == <<"H", "T", "T", "P", "S", ":", "/", "/", "W", "W", "W", ".", "L", "I", "N", "K", "E", "D", "I", "N", ".", "C", "O", "M", "/", "c">>

href_instagram == <<"h", "t", "t", "p", "s", ":", "/", "/", "i", "n", "s", "t", "a", "g", "r", "a", "m", ".", "c", "o", "m", "/", "o">>

(***************************************************************************)
(* str methods                                                             *)
(***************************************************************************)
Whitespace == {" ", "\n", "\t", "\r"}

UpperCase == <<"A", "B", "C", "D", "E", "F", "G", "H", "I", "J", "K", "L", "M", "N", "O", "P", "Q", "R", "S", "T", "U", "V", "W", "X", "Y", "Z">>

LowerCase == <<"a", "b", "c", "d", "e", "f", "g", "h", "i", "j", "k", "l", "m", "n", "o", "p", "q", "r", "s", "t", "u", "v", "w", "x", "y", "z">>

\* str.lower() on one character
LowerChar(c) ==
    IF \E i \in 1..Len(UpperCase) : UpperCase[i] = c
    THEN LowerCase[CHOOSE i \in 1..Len(UpperCase) : UpperCase[i] = c]
    ELSE c

\* str.lower()
Lower(s) == [i \in 1..Len(s) |-> LowerChar(s[i])]

\* str.strip()
Strip(s) ==
    LET keep == {i \in 1..Len(s) : s[i] \notin Whitespace}
    IN  IF keep = {} THEN <<>>
        ELSE SubSeq(s, CHOOSE i \in keep : \A j \in keep : i <= j,
                       CHOOSE i \in keep : \A j \in keep : i >= j)

\* str.startswith(prefix)
StartsWith(s, prefix) ==
    /\ Len(s) >= Len(prefix)
    /\ SubSeq(s, 1, Len(prefix)) = prefix

\* sub in s
Contains(s, sub) ==
    \E i \in 0..(Len(s) - Len(sub)) : SubSeq(s, i + 1, i + Len(sub)) = sub

\* any(text in s for text in texts)
ContainsAny(s, texts) == \E i \in 1..Len(texts) : Contains(s, texts[i])

\* "".join(parts)
RECURSIVE Join(_)
Join(parts) ==
    IF parts = <<>> THEN <<>> ELSE Head(parts) \o Join(Tail(parts))

(***************************************************************************)
(* Python values                                                           *)
(***************************************************************************)
PyNone == [type |-> "NoneType"]

PyStr(s) == [type |-> "str", chars |-> s]

PyList(l) == [type |-> "list", elems |-> l]

PyDict(d) == [type |-> "dict", items |-> d]

EmptyDict == PyDict([k \in {} |-> PyNone])

Keys(d) == DOMAIN d.items

\* truth value of a Python value (bool(v))
Truthy(v) ==
    CASE v.type = "NoneType" -> FALSE
      [] v.type = "str"      -> v.chars # <<>>
      [] v.type = "list"     -> v.elems # <<>>
      [] v.type = "dict"     -> Keys(v) # {}

\* dict.get(key)
DictGet(d, key) == IF key \in Keys(d) THEN d.items[key] ELSE PyNone

(***************************************************************************)
(* The parsed tree                                                         *)
(***************************************************************************)
Element(name, depth) ==
    [name |-> name, class |-> <<>>, hasHref |-> FALSE, href |-> <<>>,
     text |-> <<>>, depth |-> depth]

ClassElement(name, tokens, depth) ==
    [name |-> name, class |-> tokens, hasHref |-> FALSE, href |-> <<>>,
     text |-> <<>>, depth |-> depth]

Anchor(href, depth) ==
    [name |-> "a", class |-> <<>>, hasHref |-> TRUE, href |-> href,
     text |-> <<>>, depth |-> depth]

TextNode(chars, depth) ==
    [name |-> "#text", class |-> <<>>, hasHref |-> FALSE, href |-> <<>>,
     text |-> chars, depth |-> depth]

\* the BeautifulSoup object is node 0; find() returning None is NoElement
SoupRoot == 0

NoElement == 0 - 1

DepthOf(soup, i) == IF i = SoupRoot THEN 0 ELSE soup[i].depth

\* indices of the descendants of node i, which follow it in document order
Descendants(soup, i) ==
    {j \in (i + 1)..Len(soup) :
        \A k \in (i + 1)..j : soup[k].depth > DepthOf(soup, i)}

\* the members of a set of indices, in document order
RECURSIVE InOrder(_)
InOrder(S) ==
    IF S = {} THEN <<>>
    ELSE LET m == CHOOSE i \in S : \A j \in S : i <= j
         IN  <<m>> \o InOrder(S \ {m})

\* the strings below node i, in document order
Strings(soup, i) ==
    LET idx == InOrder({j \in Descendants(soup, i) : soup[j].name = "#text"})
    IN  [k \in 1..Len(idx) |-> soup[idx[k]].text]

\* Tag.get_text(): the strings below the element, concatenated
get_text(soup, i) == Join(Strings(soup, i))

\* Tag.get_text(strip=True): each string stripped, the empty ones dropped
get_text_strip(soup, i) ==
    Join(SelectSeq([k \in 1..Len(Strings(soup, i)) |-> Strip(Strings(soup, i)[k])],
                   LAMBDA s : s # <<>>))

\* find_all('a', href=True)
IsAnchorWithHref(tree, j) == tree[j].name = "a" /\ tree[j].hasHref

\* find('title'), find_all('h4')
IsTitle(tree, j) == tree[j].name = "title"

IsH4(tree, j) == tree[j].name = "h4"

\* lambda x: x and 'testimonial' in x.lower()
TestimonialClass(x) == x # <<>> /\ Contains(Lower(x), s_testimonial)

\* class_=f: f is tried on every class of the element and on the whole attribute
HasTestimonialClass(tree, j) ==
    LET classes == tree[j].class
        whole == Join([k \in 1..Len(classes) |->
                          IF k = 1 THEN classes[k] ELSE <<" ">> \o classes[k]])
    IN  \/ \E k \in 1..Len(classes) : TestimonialClass(classes[k])
        \/ TestimonialClass(whole)

\* lambda tag: tag.name in ['p', 'div'] and tag.get_text(strip=True)
IsQuote(tree, j) ==
    tree[j].name \in {"p", "div"} /\ get_text_strip(tree, j) # <<>>

\* lambda tag: tag.name in ['h4', 'h5', 'strong']
IsAuthor(tree, j) == tree[j].name \in {"h4", "h5", "strong"}

\* lambda tag: tag.name in ['div', 'section'] and
\*     any(text in tag.get_text().lower() for text in ['contact', 'get in touch'])
IsContactSection(tree, j) ==
    /\ tree[j].name \in {"div", "section"}
    /\ ContainsAny(Lower(get_text(tree, j)), <<s_contact, s_get_in_touch>>)

\* does element j pass the filter?
Matches(match, tree, j) ==
    CASE match = "title"             -> IsTitle(tree, j)
      [] match = "h4"                -> IsH4(tree, j)
      [] match = "a[href]"           -> IsAnchorWithHref(tree, j)
      [] match = "class~testimonial" -> HasTestimonialClass(tree, j)
      [] match = "quote"             -> IsQuote(tree, j)
      [] match = "author"            -> IsAuthor(tree, j)
      [] match = "contact_section"   -> IsContactSection(tree, j)

\* Tag.find_all(match): every matching descendant, in document order
find_all(soup, i, match) ==
    InOrder({j \in Descendants(soup, i) :
                soup[j].name # "#text" /\ Matches(match, soup, j)})

\* Tag.find(match): the first matching descendant, or None
find(soup, i, match) ==
    LET found == find_all(soup, i, match)
    IN  IF found = <<>> THEN NoElement ELSE found[1]

(***************************************************************************)
(* Response bodies.  A body is a sequence of markup fragments; the empty   *)
(* sequence is the empty string.                                           *)
(***************************************************************************)
FragmentIds ==
    {"title", "h4_feature", "h4_footer", "h4_blank",
     "testimonial", "testimonial_h4", "author_only", "quote_only",
     "contact", "touch", "shop", "nested_contact"}

\* the nodes a fragment parses to, at depth d
FragmentNodes(id, d) ==
    CASE id = "title" ->
           \* <title> Buy Goods </title>
           <<Element("title", d), TextNode(txt_title, d + 1)>>
      [] id = "h4_feature" ->
           \* <h4> Fast <b>Pay</b></h4>
           <<Element("h4", d), TextNode(txt_fast, d + 1),
             Element("b", d + 1), TextNode(txt_pay, d + 2)>>
      [] id = "h4_footer" ->
           \* <h4> (c) 2024</h4>
           <<Element("h4", d), TextNode(txt_footer, d + 1)>>
      [] id = "h4_blank" ->
           \* <h4> \n</h4>
           <<Element("h4", d), TextNode(txt_blank, d + 1)>>
      [] id = "testimonial" ->
           \* <div class="box Testimonial-card"><p> \n</p><p>Great</p><h5>Ann</h5></div>
           <<ClassElement("div", <<cls_box, cls_testimonial_card>>, d),
             Element("p", d + 1), TextNode(txt_blank, d + 2),
             Element("p", d + 1), TextNode(txt_great, d + 2),
             Element("h5", d + 1), TextNode(txt_ann, d + 2)>>
      [] id = "testimonial_h4" ->
           \* <section class="testimonials"><h4>Ann</h4><div><p>Nice</p></div></section>
           <<ClassElement("section", <<cls_testimonials>>, d),
             Element("h4", d + 1), TextNode(txt_ann, d + 2),
             Element("div", d + 1),
             Element("p", d + 2), TextNode(txt_nice, d + 3)>>
      [] id = "author_only" ->
           \* <span class="testimonials"><strong> Bob</strong></span>
           <<ClassElement("span", <<cls_testimonials>>, d),
             Element("strong", d + 1), TextNode(txt_bob, d + 2)>>
      [] id = "quote_only" ->
           \* <div class="Testimonial-card"><p>Nice</p></div>
           <<ClassElement("div", <<cls_testimonial_card>>, d),
             Element("p", d + 1), TextNode(txt_nice, d + 2)>>
      [] id = "contact" ->
           \* <div>Contact us<a href="https://facebook.com/x">Shop</a>
           \*   <a href="https://example.com/y"></a><a href="https://twitter.com/z"></a></div>
           <<Element("div", d), TextNode(txt_contact_us, d + 1),
             Anchor(href_facebook, d + 1), TextNode(txt_shop, d + 2),
             Anchor(href_example, d + 1),
             Anchor(href_twitter, d + 1)>>
      [] id = "touch" ->
           \* <section><p>Get In Touch</p><a href="HTTPS://WWW.LINKEDIN.COM/c"></a><a>Shop</a></section>
           <<Element("section", d),
             Element("p", d + 1), TextNode(txt_get_in_touch, d + 2),
             Anchor(href_linkedin, d + 1),
             Element("a", d + 1), TextNode(txt_shop, d + 2)>>
      [] id = "shop" ->
           \* <div class="box"><a href="https://instagram.com/o">Shop</a><a href=""></a></div>
           <<ClassElement("div", <<cls_box>>, d),
             Anchor(href_instagram, d + 1), TextNode(txt_shop, d + 2),
             Anchor(<<>>, d + 1)>>
      [] id = "nested_contact" ->
           \* <div><a href="https://instagram.com/o"></a>
           \*   <section>Contact us<a href="https://twitter.com/z"></a></section></div>
           <<Element("div", d),
             Anchor(href_instagram, d + 1),
             Element("section", d + 1), TextNode(txt_contact_us, d + 2),
             Anchor(href_twitter, d + 2)>>

\* the bodies a server can send
Bodies ==
    UNION {[1..n -> FragmentIds] : n \in 0..MaxFragments}

\* the status codes a server can answer with
StatusCodes == {200, 300, 404, 503}

\* the URLs a generic scraper is constructed with
Urls == {url_example}

\* Largest number of further _extract_data calls a caller makes on one soup.
MaxRepeats == 1

VARIABLES
    scraper,     \* the scraper object: its class and self.url
    caller,      \* "main" (main() drives scrape) or "direct" (scrape() is called directly)
    pc,          \* position in scrape() / main()
    outcome,     \* what requests.get met: a connection error or a status code
    html,        \* scrape()'s local html
    soup,        \* scrape()'s local soup
    results,     \* the value scrape() / _extract_data returned last
    previous,    \* the value the call before that returned
    scrapeExit,  \* how scrape() ended: "none", "return" or "raise"
    mainExit,    \* how main() ended: "none", "return" or "raise"
    exc,         \* the exception in flight, or "none"
    file,        \* the output file: "absent", "partial" or "written"
    log,         \* the records handed to the logger
    calls        \* number of GETs, parses and extractions, and repeated extractions

vars == <<scraper, caller, pc, outcome, html, soup, results, previous,
          scrapeExit, mainExit, exc, file, log, calls>>

(***************************************************************************)
(* WebScraper                                                              *)
(***************************************************************************)
\* Response.raise_for_status(): HTTPError for a 4xx or 5xx status
RaisesOnlyServerError(status) == status >= 500 /\ status < 600

RaiseForStatus(status) == status >= 400 /\ status < 600

\* fetch_page(): the text of the response, "" when a RequestException was caught
fetch_page(met) ==
    IF met.kind = "ConnectionError" \/ RaiseForStatus(met.status)
    THEN <<>>
    ELSE met.text

\* parse_content(html): the tree BeautifulSoup builds over the markup
RECURSIVE parse_content(_)
parse_content(markup) ==
    IF markup = <<>> THEN <<>>
    ELSE FragmentNodes(Head(markup), 1) \o parse_content(Tail(markup))

\* the targets of the anchors below node i that carry an href, in document order
Hrefs(tree, i) ==
    LET links == find_all(tree, i, "a[href]")
    IN  [k \in 1..Len(links) |-> PyStr(tree[links[k]].href)]

WebScraper_collect_links(self, tree) ==
    PyDict([url |-> PyStr(self.url), links |-> PyList(Hrefs(tree, SoupRoot))])

\* WebScraper._extract_data(soup): the hook subclasses override
WebScraper_extract_data(self, tree) == EmptyDict

(***************************************************************************)
(* BuyGoodsScraper                                                         *)
(***************************************************************************)
_get_text_unguarded(tree, element) ==
    IF element # NoElement THEN PyStr(get_text_strip(tree, element)) ELSE PyNone

\* _get_text(element)
_get_text(tree, element) ==
    IF element # NoElement THEN PyStr(get_text_strip(tree, element)) ELSE PyStr(<<>>)

_extract_features_unfiltered(tree) ==
    LET feature_elements == find_all(tree, SoupRoot, "h4")
        texts == [k \in 1..Len(feature_elements) |-> _get_text(tree, feature_elements[k])]
    IN  PyList(SelectSeq(texts, LAMBDA text : Truthy(text)))

\* a call that keeps appending to the list the call before it returned
_extract_features_accumulating(tree) ==
    LET feature_elements == find_all(tree, SoupRoot, "h4")
        texts == [k \in 1..Len(feature_elements) |-> _get_text(tree, feature_elements[k])]
        kept == IF results.type = "dict" /\ "features" \in Keys(results) THEN results.items.features.elems ELSE <<>>
    IN  PyList(kept \o SelectSeq(texts, LAMBDA text :
                   Truthy(text) /\ ~StartsWith(text.chars, s_copyright)))

\* _extract_features(soup)
_extract_features(tree) ==
    LET feature_elements == find_all(tree, SoupRoot, "h4")
        texts == [k \in 1..Len(feature_elements) |-> _get_text(tree, feature_elements[k])]
    IN  PyList(SelectSeq(texts, LAMBDA text :
                   Truthy(text) /\ ~StartsWith(text.chars, s_copyright)))

\* if quote and author
EitherFound(quote, author) == quote # NoElement \/ author # NoElement

BothFound(quote, author) == quote # NoElement /\ author # NoElement

\* _extract_testimonials(soup)
_extract_testimonials(tree) ==
    LET testimonial_sections == find_all(tree, SoupRoot, "class~testimonial")
        quote(section) == find(tree, section, "quote")
        author(section) == find(tree, section, "author")
        complete == SelectSeq(testimonial_sections,
                              LAMBDA section : BothFound(quote(section), author(section)))
    IN  PyList([k \in 1..Len(complete) |->
                   PyDict([quote  |-> _get_text(tree, quote(complete[k])),
                           author |-> _get_text(tree, author(complete[k]))])])

IsPlatformCaseSensitive(href) ==
    ContainsAny(href, <<s_facebook, s_twitter, s_linkedin, s_instagram>>)

\* any(platform in link['href'].lower() for platform in [...])
IsPlatform(href) ==
    ContainsAny(Lower(href), <<s_facebook, s_twitter, s_linkedin, s_instagram>>)

_extract_contact_info_always_keyed(tree) ==
    LET contact_section == find(tree, SoupRoot, "contact_section")
    IN  PyDict([social_media |->
            PyList(IF contact_section # NoElement
                   THEN SelectSeq(Hrefs(tree, contact_section),
                                  LAMBDA href : IsPlatform(href.chars))
                   ELSE <<>>)])

\* _extract_contact_info(soup)
_extract_contact_info(tree) ==
    LET contact_section == find(tree, SoupRoot, "contact_section")
    IN  IF contact_section # NoElement
        THEN PyDict([social_media |->
                 PyList(SelectSeq(Hrefs(tree, contact_section),
                                  LAMBDA href : IsPlatform(href.chars)))])
        ELSE EmptyDict

\* BuyGoodsScraper._extract_data(soup)
BuyGoodsScraper_extract_data(self, tree) ==
    PyDict([title        |-> _get_text(tree, find(tree, SoupRoot, "title")),
            features     |-> _extract_features(tree),
            testimonials |-> _extract_testimonials(tree),
            contact_info |-> _extract_contact_info(tree)])

\* self._extract_data(soup), by the class of self
_extract_data(self, tree) ==
    IF self.cls = "BuyGoodsScraper"
    THEN BuyGoodsScraper_extract_data(self, tree)
    ELSE WebScraper_extract_data(self, tree)

(***************************************************************************)
(* scrape() and main(), step by step                                       *)
(***************************************************************************)
Logged(level, message) == Append(log, [level |-> level, message |-> message])

NoOutcome == [kind |-> "none", status |-> 0]

\* what requests.get can meet
Outcomes ==
    {[kind |-> "ConnectionError", status |-> 0, text |-> <<>>]}
    \cup {[kind |-> "response", status |-> s, text |-> b] : s \in StatusCodes, b \in Bodies}

\* except Exception: every exception raised in the try block is an Exception
CaughtOnlyOSError(e) == e = "OSError"

Caught(e) == e \in {"FeatureNotFound", "OSError"}

\* an exception leaves scrape() or the body of main()'s try block
Raise(e) ==
    IF caller = "main" /\ Caught(e)
    THEN /\ pc' = "except"
         /\ exc' = e
         /\ mainExit' = mainExit
    ELSE /\ pc' = "done"
         /\ exc' = e
         /\ mainExit' = IF caller = "main" THEN "raise" ELSE mainExit

\* scrape() returns to its caller
AfterScrape == IF caller = "main" THEN "save" ELSE "done"

Init ==
    /\ \/ /\ scraper = [cls |-> "BuyGoodsScraper", url |-> url_buygoods]
          /\ caller \in {"main", "direct"}
       \/ /\ scraper \in {[cls |-> "WebScraper", url |-> u] : u \in Urls}
          /\ caller = "direct"
    /\ pc = "scrape"
    /\ outcome = NoOutcome
    /\ html = <<>>
    /\ soup = <<>>
    /\ results = PyNone
    /\ previous = PyNone
    /\ scrapeExit = "none"
    /\ mainExit = "none"
    /\ exc = "none"
    /\ file = "absent"
    /\ log = <<>>
    /\ calls = [get |-> 0, parse |-> 0, extract |-> 0, repeat |-> 0]

\* a fetch that asks once more after a failure
FetchPageWithRetry ==
    /\ pc = "scrape"
    /\ \E met \in Outcomes :
          /\ outcome' = [kind |-> met.kind, status |-> met.status]
          /\ html' = fetch_page(met)
          /\ log' = Logged("INFO", "Starting to scrape")
          /\ calls' = [calls EXCEPT !.get = IF fetch_page(met) = <<>> THEN @ + 2 ELSE @ + 1]
    /\ pc' = "fetched"
    /\ UNCHANGED <<scraper, caller, soup, results, previous, scrapeExit, mainExit, exc, file>>

\* scrape(): the start notice and html = self.fetch_page()
FetchPage ==
    /\ pc = "scrape"
    /\ \E met \in Outcomes :
          /\ outcome' = [kind |-> met.kind, status |-> met.status]
          /\ html' = fetch_page(met)
          /\ log' = IF met.kind = "ConnectionError" \/ RaiseForStatus(met.status)
                    THEN Append(Logged("INFO", "Starting to scrape"),
                                [level |-> "ERROR", message |-> "Error fetching the page"])
                    ELSE Logged("INFO", "Starting to scrape")
    /\ calls' = [calls EXCEPT !.get = @ + 1]
    /\ pc' = "fetched"
    /\ UNCHANGED <<scraper, caller, soup, results, previous, scrapeExit, mainExit, exc, file>>

\* scrape(): if not html: return {}
ReturnEmpty ==
    /\ pc = "fetched"
    /\ html = <<>>
    /\ results' = EmptyDict
    /\ scrapeExit' = "return"
    /\ pc' = AfterScrape
    /\ UNCHANGED <<scraper, caller, outcome, html, soup, previous, mainExit, exc, file, log, calls>>

\* scrape(): soup = self.parse_content(html); BeautifulSoup raises
\* FeatureNotFound when the lxml parser is not installed
ParseContent ==
    /\ pc = "fetched"
    /\ html # <<>>
    /\ calls' = [calls EXCEPT !.parse = @ + 1]
    /\ \/ /\ soup' = parse_content(html)
          /\ pc' = "parsed"
          /\ UNCHANGED <<scrapeExit, mainExit, exc>>
       \/ /\ scrapeExit' = "raise"
          /\ Raise("FeatureNotFound")
          /\ UNCHANGED soup
    /\ UNCHANGED <<scraper, caller, outcome, html, results, previous, file, log>>

\* scrape(): return self._extract_data(soup)
ExtractData ==
    /\ pc = "parsed"
    /\ results' = _extract_data(scraper, soup)
    /\ calls' = [calls EXCEPT !.extract = @ + 1]
    /\ scrapeExit' = "return"
    /\ pc' = AfterScrape
    /\ UNCHANGED <<scraper, caller, outcome, html, soup, previous, mainExit, exc, file, log>>

\* the caller calls _extract_data once more on the soup it holds
ExtractAgain ==
    /\ pc = "done"
    /\ caller = "direct"
    /\ calls.extract = 1
    /\ calls.repeat < MaxRepeats
    /\ previous' = results
    /\ results' = _extract_data(scraper, soup)
    /\ calls' = [calls EXCEPT !.repeat = @ + 1]
    /\ UNCHANGED <<scraper, caller, pc, outcome, html, soup, scrapeExit, mainExit, exc, file, log>>

\* main(): open the output file and json.dump the results into it
SaveResults ==
    /\ pc = "save"
    /\ \/ /\ file' = "written"
          /\ log' = Logged("INFO", "Data has been saved")
          /\ pc' = "summary"
          /\ UNCHANGED <<mainExit, exc>>
       \/ /\ file' \in {"absent", "partial"}
          /\ Raise("OSError")
          /\ UNCHANGED log
    /\ UNCHANGED <<scraper, caller, outcome, html, soup, results, previous, scrapeExit, calls>>

\* the lines main() logs for one list of results
SummaryLines(heading, value, perEntry) ==
    IF Truthy(value)
    THEN <<[level |-> "INFO", message |-> heading]>>
         \o [k \in 1..(Len(value.elems) * perEntry) |-> [level |-> "INFO", message |-> "entry"]]
    ELSE <<>>

\* main(): display some results, then fall off the end of the try block
LogSummary ==
    /\ pc = "summary"
    /\ log' = log \o SummaryLines("Platform Features:", DictGet(results, "features"), 1)
                  \o SummaryLines("Testimonials:", DictGet(results, "testimonials"), 2)
    /\ mainExit' = "return"
    /\ pc' = "done"
    /\ UNCHANGED <<scraper, caller, outcome, html, soup, results, previous, scrapeExit, exc, file, calls>>

\* main(): except Exception as e: logger.error(...)
HandleException ==
    /\ pc = "except"
    /\ log' = Logged("ERROR", "An error occurred")
    /\ exc' = "none"
    /\ mainExit' = "return"
    /\ pc' = "done"
    /\ UNCHANGED <<scraper, caller, outcome, html, soup, results, previous, scrapeExit, file, calls>>

Next ==
    \/ FetchPage
    \/ ReturnEmpty
    \/ ParseContent
    \/ ExtractData
    \/ ExtractAgain
    \/ SaveResults
    \/ LogSummary
    \/ HandleException

Spec == Init /\ [][Next]_vars

(***************************************************************************)
(* Properties                                                              *)
(***************************************************************************)
Fetched == pc # "scrape"

Extracted == scrapeExit = "return" /\ calls.extract = 1

Specialized == scraper.cls = "BuyGoodsScraper"

\* C1, as stated: whenever the fetch meets a connection error or a status
\* outside 200..299, fetch_page returns "", scrape() returns {} and no
\* exception leaves scrape().
C1_Non2xxYieldsEmpty ==
    (Fetched /\ (outcome.kind = "ConnectionError" \/ outcome.status \notin 200..299))
        => /\ html = <<>>
           /\ scrapeExit # "raise"
           /\ pc # "fetched" => (scrapeExit = "return" /\ results = EmptyDict)

\* C1, amended: whenever the fetch meets a connection error or a 4xx/5xx
\* status, fetch_page returns "", scrape() returns {} and no exception leaves
\* scrape().
C1_FetchFailureYieldsEmpty ==
    (Fetched /\ (outcome.kind = "ConnectionError" \/ outcome.status \in 400..599))
        => /\ html = <<>>
           /\ scrapeExit # "raise"
           /\ pc # "fetched" => (scrapeExit = "return" /\ results = EmptyDict)

C1_Witness ==
    /\ outcome.kind = "response"
    /\ outcome.status = 404
    /\ scrapeExit = "return"
    /\ results = EmptyDict

C3_FixedKeysNoNull ==
    (Specialized /\ scrapeExit = "return")
        => IF calls.extract >= 1
           THEN /\ html # <<>>
                /\ Keys(results) = {"title", "features", "testimonials", "contact_info"}
                /\ results.items.title.type = "str"
                /\ results.items.features.type = "list"
                /\ results.items.testimonials.type = "list"
                /\ results.items.contact_info.type = "dict"
           ELSE html = <<>> /\ results = EmptyDict

C3_Witness ==
    /\ Specialized
    /\ Extracted
    /\ \A j \in 1..Len(soup) : soup[j].name # "title"
    /\ results.items.title = PyStr(<<>>)
    /\ results.items.features = PyList(<<>>)
    /\ results.items.testimonials = PyList(<<>>)

\* the stripped text of every h4 of the tree, in document order
HeadingTexts(tree) ==
    LET headings == InOrder({j \in 1..Len(tree) : tree[j].name = "h4"})
    IN  [k \in 1..Len(headings) |-> PyStr(get_text_strip(tree, headings[k]))]

\* C4, as stated: features is the stripped text of every h4 in document
\* order, leaving out exactly those that begin with the copyright sign.
C4_OnlyCopyrightExcluded ==
    (Specialized /\ Extracted)
        => results.items.features.elems
             = SelectSeq(HeadingTexts(soup), LAMBDA t : ~StartsWith(t.chars, s_copyright))

\* C4, amended: features is the stripped text of every h4 in document order,
\* leaving out exactly those that are empty or begin with the copyright sign;
\* no entry of features is empty or begins with the copyright sign.
C4_EmptyAndCopyrightExcluded ==
    (Specialized /\ Extracted)
        => /\ results.items.features.elems
                = SelectSeq(HeadingTexts(soup),
                            LAMBDA t : t.chars # <<>> /\ t.chars[1] # "©")
           /\ \A k \in 1..Len(results.items.features.elems) :
                 /\ results.items.features.elems[k].chars # <<>>
                 /\ results.items.features.elems[k].chars[1] # "©"

C4_Witness ==
    /\ Specialized
    /\ Extracted
    /\ \E j \in 1..Len(soup) :
          soup[j].name = "h4" /\ StartsWith(get_text_strip(soup, j), s_copyright)
    /\ \E j \in 1..Len(soup) :
          soup[j].name = "h4" /\ get_text_strip(soup, j) = <<>>
    /\ results.items.features = PyList(<<>>)

\* the least member of a non-empty set of node indices
First(S) == CHOOSE i \in S : \A j \in S : i <= j

\* the elements whose class attribute contains "testimonial", in any case
CandidateSections(tree) ==
    {j \in 1..Len(tree) :
        \E k \in 1..Len(tree[j].class) : Contains(Lower(tree[j].class[k]), s_testimonial)}

\* the p and div elements inside a section that have non-blank text
QuotesIn(tree, section) ==
    {j \in Descendants(tree, section) :
        /\ tree[j].name \in {"p", "div"}
        /\ \E k \in Descendants(tree, j) :
              tree[k].name = "#text" /\ \E c \in 1..Len(tree[k].text) : tree[k].text[c] \notin Whitespace}

\* the h4, h5 and strong elements inside a section
AuthorsIn(tree, section) ==
    {j \in Descendants(tree, section) : tree[j].name \in {"h4", "h5", "strong"}}

\* C5: testimonials holds one {quote, author} record for each candidate
\* section that contains both a quote element and an author element, in the
\* document order of the sections, made of the first quote and the first
\* author of that section; a section with only one of the two gives no record.
C5_BothOrNothing ==
    (Specialized /\ Extracted)
        => LET complete == InOrder({section \in CandidateSections(soup) :
                                       /\ QuotesIn(soup, section) # {}
                                       /\ AuthorsIn(soup, section) # {}})
               records == results.items.testimonials.elems
           IN  /\ Len(records) = Len(complete)
               /\ \A k \in 1..Len(records) :
                     /\ Keys(records[k]) = {"quote", "author"}
                     /\ records[k].items.quote
                          = PyStr(get_text_strip(soup, First(QuotesIn(soup, complete[k]))))
                     /\ records[k].items.author
                          = PyStr(get_text_strip(soup, First(AuthorsIn(soup, complete[k]))))

C5_Witness ==
    /\ Specialized
    /\ Extracted
    /\ \E section \in CandidateSections(soup) :
          QuotesIn(soup, section) = {} /\ AuthorsIn(soup, section) # {}
    /\ \E section \in CandidateSections(soup) :
          QuotesIn(soup, section) # {} /\ AuthorsIn(soup, section) # {}
    /\ Len(results.items.testimonials.elems) = 1

\* the div and section elements whose text contains "contact" or "get in
\* touch", in any case
ContactContainers(tree) ==
    {j \in 1..Len(tree) :
        /\ tree[j].name \in {"div", "section"}
        /\ \/ Contains(Lower(get_text(tree, j)), s_contact)
           \/ Contains(Lower(get_text(tree, j)), s_get_in_touch)}

\* C6: contact_info has the key social_media exactly when some div or section
\* has text containing "contact" or "get in touch"; without one it is {}.
C6_KeyIffContainer ==
    (Specialized /\ Extracted)
        => /\ ("social_media" \in Keys(results.items.contact_info))
                <=> (ContactContainers(soup) # {})
           /\ ContactContainers(soup) = {} => results.items.contact_info = EmptyDict
           /\ Keys(results.items.contact_info) \subseteq {"social_media"}

C6_Witness ==
    /\ Specialized
    /\ Extracted
    /\ ContactContainers(soup) = {}
    /\ \E j \in 1..Len(soup) : soup[j].hasHref /\ Contains(soup[j].href, s_instagram)
    /\ results.items.contact_info = EmptyDict

\* the platform names, lower case
Platforms == {s_facebook, s_twitter, s_linkedin, s_instagram}

\* C7: when a contact container is found, social_media is, in document order,
\* the href of every anchor inside the first such container whose href
\* contains a platform name in any case, and nothing else.
C7_SocialLinksOfFirstContainer ==
    (Specialized /\ Extracted /\ ContactContainers(soup) # {})
        => LET container == First(ContactContainers(soup))
               matching == InOrder({j \in Descendants(soup, container) :
                                       /\ soup[j].name = "a"
                                       /\ soup[j].hasHref
                                       /\ \E platform \in Platforms :
                                             Contains(Lower(soup[j].href), platform)})
           IN  results.items.contact_info.items.social_media
                 = PyList([k \in 1..Len(matching) |-> PyStr(soup[matching[k]].href)])

C7_Witness ==
    /\ Specialized
    /\ Extracted
    /\ results.items.contact_info
         = PyDict([social_media |-> PyList(<<PyStr(href_facebook), PyStr(href_twitter)>>)])
    /\ \E j \in 1..Len(soup) : soup[j].hasHref /\ soup[j].href = href_linkedin

C9_MainNeverRaises ==
    caller = "main"
        => /\ mainExit # "raise"
           /\ pc = "done" => (mainExit = "return" /\ exc = "none")

C9_Witness ==
    /\ caller = "main"
    /\ pc = "done"
    /\ mainExit = "return"
    /\ scrapeExit = "raise"
    /\ log[Len(log)] = [level |-> "ERROR", message |-> "An error occurred"]

\* C10: scrape() issues exactly one GET, before any parse or extraction; it
\* parses and extracts at most once, and only non-empty content; with empty
\* content it returns {} without parsing or extracting.
C10_OneGetThenParseThenExtract ==
    /\ calls.get = IF Fetched THEN 1 ELSE 0
    /\ calls.parse <= 1
    /\ calls.extract <= 1
    /\ calls.extract <= calls.parse
    /\ calls.parse >= 1 => (calls.get = 1 /\ html # <<>>)
    /\ (Fetched /\ html = <<>> /\ pc # "fetched")
          => /\ scrapeExit = "return"
             /\ results = EmptyDict
             /\ calls.parse = 0
             /\ calls.extract = 0

C10_Witness ==
    /\ outcome.kind = "response"
    /\ outcome.status = 200
    /\ html = <<>>
    /\ scrapeExit = "return"
    /\ results = EmptyDict
    /\ calls = [get |-> 1, parse |-> 0, extract |-> 0, repeat |-> 0]

====
